---- MODULE Spec2Model ----
(***************************************************************************)
(* Per-guild music playback orchestrator (src/system.py, src/main.py).     *)
(*                                                                         *)
(* The model follows one guild.  Every handler of the source is a task of  *)
(* the asyncio event loop: the code between two awaits is one atomic step, *)
(* and a task may be overtaken by any other task at every await.  Each     *)
(* SQL statement goes through SQLiteStore._execute, which holds the        *)
(* store's asyncio.Lock for exactly one statement; asyncio.Lock wakes its  *)
(* waiters first-come first-served, which lockq reproduces.                *)
(***************************************************************************)
EXTENDS Integers, Sequences, FiniteSets, TLC

VARIABLES
    sessions,      \* MusicController.sessions: guild -> GuildSession
    player,        \* guild.voice_client (a wavelink.Player) or NoPlayer
    settingsRow,   \* the guild's row of table guild_settings, or NoRow
    pqRows,        \* the guild's rows of table persistent_queue
    history,       \* the guild's rows of table playback_history, oldest first
    tasks,         \* running handlers: slot -> frame (pc and locals)
    lockq,         \* slots waiting for SQLiteStore.lock, first come first
    endEvents,     \* track-end events of skipped tracks, not yet delivered
    committed,     \* the snapshot of the latest save_queue call that returned
    phase,         \* "boot", "recovering", "recovered" (on_ready only), "run"
    dj_role_id,    \* MusicController.dj_role_id (DJ_ROLE_ID), 0 for None
    budget,        \* commands, engine events and restarts still to come
    cooldowns,     \* table command_cooldowns: (guild, user, command) -> last_used
    now,           \* the clock, in ticks of 0.6 s
    window,        \* DemonBot.user_message_window: user -> time of last message
    gate,          \* what on_message decided for the latest message
    escaped,       \* an exception has left on_message
    audit_logs,    \* anti_nuke: the guild's channel_delete audit entries
    handlers,      \* anti_nuke: channel -> its on_guild_channel_delete run
    deleter,       \* anti_nuke: channel -> the user who deleted it, 0 if none
    recreated,     \* anti_nuke: deleted channels the bot has recreated
    banned,        \* anti_nuke: users the bot has banned
    TRUSTED_USER_IDS   \* anti_nuke: the module's list of trusted users

\* the state of anti_nuke.py, a bot of its own
nukeVars == << audit_logs, handlers, deleter, recreated, banned,
               TRUSTED_USER_IDS >>

\* the state of on_message's gates, which the controller never touches
gateVars == << cooldowns, now, window, gate, escaped, nukeVars >>

vars == << sessions, player, settingsRow, pqRows, history, tasks, lockq,
           endEvents, committed, phase, dj_role_id, budget, gateVars >>

----------------------------------------------------------------------------
(* Bounds of the model.                                                    *)

MaxQueue == 3        \* longest pending queue a handler may build
MaxEvents == 3       \* commands, engine events and restarts in one run
MaxEnd == 1          \* undelivered track-end events

Guilds == {1}
Guild == CHOOSE g \in Guilds : TRUE
Uris == {1, 2, 3}
Users == {1, 2, 3}
Slots == {1, 2}

----------------------------------------------------------------------------
(* Tracks: wavelink.Playable in memory, StoredTrack towards the store.     *)

\* what the search returns for a uri: uri 3 is a track without an author
\* and of length 0 (a live stream), uri 2 a track without artwork (None)
Title(u) == << "title", u >>
Author(u) == IF u = 3 THEN "" ELSE "artist"
Length(u) == IF u = 3 THEN 0 ELSE 180
Artwork(u) == IF u = 2 THEN "None" ELSE "art"

Playable(u, r) ==
    [title |-> Title(u), uri |-> u, author |-> Author(u),
     length |-> Length(u), artwork |-> Artwork(u), req |-> r]
NoTrack ==
    [title |-> << >>, uri |-> 0, author |-> "", length |-> 0,
     artwork |-> "None", req |-> 0]
Tracks == { Playable(u, r) : u \in Uris, r \in Users }

\* MusicController._stored
Stored(t) ==
    [title |-> t.title, uri |-> t.uri, author |-> t.author,
     length |-> t.length, artwork |-> t.artwork, req |-> t.req]

\* load_queue's row -> StoredTrack, then restore_for_guild's rebuilt Playable
LoadRow(row) ==
    [title |-> row.title,
     uri |-> row.uri,
     author |-> IF row.author = "" THEN "Unknown" ELSE row.author,
     length |-> IF row.length = 0 THEN 0 ELSE row.length,
     artwork |-> row.artwork,
     req |-> IF row.req = 0 THEN 0 ELSE row.req]

StoredSeq(q) == [i \in 1..Len(q) |-> Stored(q[i])]

UrisOf(q) == { q[i].uri : i \in 1..Len(q) }

----------------------------------------------------------------------------
(* SQLiteStore: table persistent_queue, PRIMARY KEY (guild_id, position).  *)

Positions(rows) == { r.pos : r \in rows }

RECURSIVE SortedRows(_)
SortedRows(rows) ==
    IF rows = {} THEN << >>
    ELSE LET first == CHOOSE r \in rows : \A o \in rows : r.pos <= o.pos
         IN << first.row >> \o SortedRows(rows \ {first})

\* load_queue with ORDER BY position DESC, the order C4_Recovery excludes
LoadQueueDesc(rows) ==
    LET s == SortedRows(rows)
    IN [i \in 1..Len(s) |-> LoadRow(s[Len(s) + 1 - i])]

\* load_queue: SELECT ... ORDER BY position ASC
LoadQueue(rows) ==
    LET s == SortedRows(rows) IN [i \in 1..Len(s) |-> LoadRow(s[i])]

\* the rows a completed save_queue(tracks) leaves
RowsOf(snap) == { [pos |-> i - 1, row |-> snap[i]] : i \in 1..Len(snap) }

----------------------------------------------------------------------------
(* guild_settings                                                          *)

NoRow == [dj_role |-> -1, volume |-> -1, last_text_channel |-> -1]
DefaultRow == [dj_role |-> 0, volume |-> 100, last_text_channel |-> 0]

\* INSERT OR IGNORE INTO guild_settings(guild_id)
InsertOrIgnore(row) == IF row = NoRow THEN DefaultRow ELSE row

\* UPDATE guild_settings SET ... WHERE guild_id = ?  (no row: nothing changes)
UpdateRow(row, new) == IF row = NoRow THEN NoRow ELSE new

----------------------------------------------------------------------------
(* GuildSession and the player                                             *)

GuildSession ==
    [queue |-> << >>, loop_mode |-> "off", default_volume |-> 100,
     last_track |-> NoTrack, idle_task |-> "none", retry_attempts |-> 0]

\* MusicController._session, the value it returns
Session == IF Guild \in DOMAIN sessions THEN sessions[Guild] ELSE GuildSession

\* the dict after _session() and the handler's writes to the session s
WithSession(s) == [g \in Guilds |-> s]

NoFilter == [kind |-> "none", speed |-> 100, pitch |-> 100]

NoPlayer == [connected |-> FALSE, current |-> NoTrack, playing |-> FALSE,
             paused |-> FALSE, volume |-> 0, position |-> 0,
             filters |-> NoFilter]
NewPlayer == [connected |-> TRUE, current |-> NoTrack, playing |-> FALSE,
              paused |-> FALSE, volume |-> 100, position |-> 0,
              filters |-> NoFilter]

\* members: 1 is an administrator, 2 holds role 1, 3 holds no role
IsAdmin(u) == u = 1
RolesOf(u) == IF u = 2 THEN {1} ELSE {}

\* a has_dj that prefers the process-wide role to the stored one, which
\* C12_HasDj excludes
HasDjRoleDefaultFirst(row, u) ==
    LET role_id == IF dj_role_id # 0 THEN dj_role_id ELSE row.dj_role
    IN IF role_id = 0 THEN TRUE ELSE role_id \in RolesOf(u)

\* has_dj once it has the settings row (the member is no administrator)
HasDjRole(row, u) ==
    LET role_id == IF row.dj_role # 0 THEN row.dj_role ELSE dj_role_id
    IN IF role_id = 0 THEN TRUE ELSE role_id \in RolesOf(u)

----------------------------------------------------------------------------
(* Handler frames                                                          *)

StorePcs == {"gs_ins", "gs_sel", "sv_del", "sv_ins", "hist_ins", "emb_upd",
             "ex_log", "vol_upd", "rs_load", "cd_sel", "cd_ups", "cmd_log",
             "dj_upd"}

\* cmd, gld and arg are the command word, the guild and the raw argument of
\* the message on_message is handling ("" and 0 in any other handler)
IdleFrame == [pc |-> "idle", then |-> "", user |-> 0, snap |-> << >>,
              i |-> 0, trk |-> NoTrack, num |-> 0, flt |-> NoFilter,
              inc |-> << >>, cmd |-> "", gld |-> 0, arg |-> 0]

Frame(pc, then, user, snap, trk) ==
    [pc |-> pc, then |-> then, user |-> user, snap |-> snap, i |-> 0,
     trk |-> trk, num |-> 0, flt |-> NoFilter, inc |-> << >>,
     cmd |-> "", gld |-> 0, arg |-> 0]

\* a task is at pc and, for a statement of the store, holds the lock next
At(t, pc) ==
    /\ tasks[t].pc = pc
    /\ pc \in StorePcs => (lockq # << >> /\ Head(lockq) = t)

\* the task's await returns and it runs on to its next await, frame f
Step(t, f) ==
    /\ tasks' = [tasks EXCEPT ![t] = f]
    /\ lockq' = LET q == IF tasks[t].pc \in StorePcs THEN Tail(lockq) ELSE lockq
                IN IF f.pc \in StorePcs THEN Append(q, t) ELSE q

\* one more command, engine event or restart
Spend == budget > 0 /\ budget' = budget - 1

NoHandler == \A t \in Slots : tasks[t].pc = "idle"

\* a new handler takes the first free slot (the slots are interchangeable)
Free(t) ==
    /\ tasks[t].pc = "idle"
    /\ \A o \in Slots : o < t => tasks[o].pc # "idle"

----------------------------------------------------------------------------
(* play_next, from its entry to its first await                            *)

\* a play_next that never takes the loop-track branch, which C9_LoopTrack
\* excludes
RepeatsNever(s) == FALSE

\* "if player.current and session.loop_mode == 'track'"
RepeatsTrack(s) == player.current # NoTrack /\ s.loop_mode = "track"

\* a loop-queue branch that puts the ended track at the front, which
\* C8_LoopQueue excludes
RequeueFront(s) ==
    IF player.current # NoTrack /\ s.loop_mode = "queue"
    THEN << player.current >> \o s.queue
    ELSE s.queue

\* "if player.current and session.loop_mode == 'queue': queue.append(...)"
Requeue(s) ==
    IF player.current # NoTrack /\ s.loop_mode = "queue"
    THEN Append(s.queue, player.current)
    ELSE s.queue

PlayNext ==
    IF ~player.connected THEN [ss |-> sessions, f |-> IdleFrame]
    ELSE LET s == Session IN
         IF RepeatsTrack(s)
         THEN [ss |-> WithSession(s),
               f |-> Frame("pn_replay", "", 0, << >>, player.current)]
         ELSE LET q == Requeue(s)
              IN IF q = << >>
                 THEN [ss |-> WithSession([s EXCEPT !.queue = q,
                                                    !.idle_task = "pending"]),
                       f |-> IdleFrame]
                 ELSE [ss |-> WithSession([s EXCEPT !.queue = Tail(q),
                                                    !.last_track = Head(q)]),
                       f |-> Frame("pn_play", "", 0, << >>, Head(q))]

\* _persist_queue up to save_queue's DELETE: the snapshot is taken here
Persist(q, then, f) ==
    [f EXCEPT !.pc = "sv_del", !.then = then, !.snap = StoredSeq(q), !.i = 0]

\* what follows a save_queue that returned, by its caller
After(f) ==
    CASE f.then = "pq_after" ->
            IF ~player.playing /\ ~player.paused
            THEN PlayNext
            ELSE [ss |-> sessions, f |-> IdleFrame]
      [] f.then = "pn_hist" ->
            [ss |-> sessions, f |-> Frame("hist_ins", "", 0, << >>, f.trk)]
      [] f.then = "stop_disc" ->
            [ss |-> sessions, f |-> Frame("stop_disc", "", 0, << >>, NoTrack)]
      [] OTHER -> [ss |-> sessions, f |-> IdleFrame]

----------------------------------------------------------------------------
(* SQLiteStore.save_queue: DELETE, then one INSERT per track               *)

SaveDelete(t) ==
    /\ At(t, "sv_del")
    /\ pqRows' = {}
    /\ IF tasks[t].snap = << >>
       THEN LET r == After(tasks[t])
            IN /\ sessions' = r.ss
               /\ Step(t, r.f)
               /\ committed' = tasks[t].snap
       ELSE /\ Step(t, [tasks[t] EXCEPT !.pc = "sv_ins", !.i = 0])
            /\ UNCHANGED << sessions, committed >>
    /\ UNCHANGED << player, settingsRow, history, endEvents, phase,
                    dj_role_id, gateVars, budget >>

\* INSERT of row i at position i; a taken position raises IntegrityError,
\* which ends the handler
SaveInsert(t) ==
    /\ At(t, "sv_ins")
    /\ LET f == tasks[t]
           taken == f.i \in Positions(pqRows)
           last == f.i + 1 = Len(f.snap)
       IN IF taken
          THEN /\ Step(t, IdleFrame)
               /\ UNCHANGED << pqRows, sessions, committed >>
          ELSE /\ pqRows' = pqRows \cup {[pos |-> f.i, row |-> f.snap[f.i + 1]]}
               /\ IF last
                  THEN LET r == After(f)
                       IN /\ sessions' = r.ss
                          /\ Step(t, r.f)
                          /\ committed' = f.snap
                  ELSE /\ Step(t, [f EXCEPT !.i = f.i + 1])
                       /\ UNCHANGED << sessions, committed >>
    /\ UNCHANGED << player, settingsRow, history, endEvents, phase,
                    dj_role_id, gateVars, budget >>

----------------------------------------------------------------------------
(* SQLiteStore.get_guild_settings: INSERT OR IGNORE, then SELECT           *)

SettingsInsert(t) ==
    /\ At(t, "gs_ins")
    /\ settingsRow' = InsertOrIgnore(settingsRow)
    /\ Step(t, [tasks[t] EXCEPT !.pc = "gs_sel"])
    /\ UNCHANGED << sessions, player, pqRows, history, endEvents, committed,
                    phase, dj_role_id, gateVars, budget >>

----------------------------------------------------------------------------
(* The bodies of the DJ-gated commands, entered once has_dj returned True  *)

\* a clamp without its lower bound, which C20_VolumeClamp excludes
ClampAbove(lo, hi, v) == IF v > hi THEN hi ELSE v

Clamp(lo, hi, v) == IF v < lo THEN lo ELSE IF v > hi THEN hi ELSE v

\* a stop that persists the queue without clearing it, which C15_Stop
\* excludes
StopBodyKeepsQueue(f) ==
    [ss |-> WithSession(Session),
     f |-> Persist(Session.queue, "stop_disc", f)]

\* stop: queue.clear(), _persist_queue
StopBody(f) ==
    [ss |-> WithSession([Session EXCEPT !.queue = << >>]),
     f |-> Persist(<< >>, "stop_disc", f)]

\* set_volume: clamp, session.default_volume, store.set_volume
VolumeBody(f) ==
    LET v == Clamp(0, 200, f.num)
    IN [ss |-> WithSession([Session EXCEPT !.default_volume = v]),
        f |-> [f EXCEPT !.pc = "vol_upd", !.then = "", !.num = v]]

\* seek: player.seek(max(0, seconds * 1000))
SeekBody(f) ==
    [ss |-> sessions,
     f |-> [f EXCEPT !.pc = "seek", !.then = "",
                     !.num = IF f.num * 1000 < 0 THEN 0 ELSE f.num * 1000]]

Gated(f) ==
    CASE f.then = "dj_stop" -> StopBody(f)
      [] f.then = "dj_vol" -> VolumeBody(f)
      [] OTHER -> SeekBody(f)

\* the SELECT of get_guild_settings and what its caller does with the row
SettingsSelect(t) ==
    /\ At(t, "gs_sel")
    /\ LET f == tasks[t]
           row == settingsRow
           r == CASE f.then = "pq" ->
                       [ss |-> WithSession([Session EXCEPT !.default_volume =
                                  IF row.volume = 0 THEN 100 ELSE row.volume]),
                        f |-> [f EXCEPT !.pc = "pq_conn", !.then = ""]]
                  [] f.then = "te" ->
                       IF row.last_text_channel # 0
                       THEN PlayNext
                       ELSE [ss |-> sessions, f |-> IdleFrame]
                  [] OTHER ->
                       IF HasDjRole(row, f.user)
                       THEN Gated(f)
                       ELSE [ss |-> sessions, f |-> IdleFrame]
       IN /\ sessions' = r.ss
          /\ Step(t, r.f)
    /\ UNCHANGED << player, settingsRow, pqRows, history, endEvents,
                    committed, phase, dj_role_id, gateVars, budget >>

----------------------------------------------------------------------------
(* play_query                                                              *)

MaxIncoming == 2     \* most tracks one search returns

\* what a search may return: no track, one track, or a playlist
SearchResults(uris) ==
    UNION { [1..n -> uris] : n \in 0..MaxIncoming }

\* the loop over incoming: append what is not in existing_uris, count it
RECURSIVE Enqueue(_, _, _, _, _)
Enqueue(q, existing, inc, u, added) ==
    IF inc = << >> THEN [queue |-> q, added |-> added]
    ELSE IF Head(inc) \in existing
         THEN Enqueue(q, existing, Tail(inc), u, added)
         ELSE Enqueue(Append(q, Playable(Head(inc), u)),
                      existing \cup {Head(inc)}, Tail(inc), u, added + 1)

\* existing_uris without player.current's uri, which C7_Dedup excludes
ExistingUrisPending(q) == UrisOf(q)

\* existing_uris: the pending queue's and player.current's
ExistingUris(q) ==
    UrisOf(q) \cup (IF player.current # NoTrack THEN {player.current.uri} ELSE {})

\* a recognised play command of member u, who is in a voice channel
PlayQuery(t, u) ==
    /\ Free(t)
    /\ Step(t, Frame("gs_ins", "pq", u, << >>, NoTrack))
    /\ phase' = "run"
    /\ Spend
    /\ UNCHANGED << sessions, player, settingsRow, pqRows, history, endEvents,
                    committed, dj_role_id, gateVars >>

\* ensure_player returns; the check of wavelink.Pool.nodes
EnsurePlayer(t) ==
    /\ At(t, "pq_conn")
    /\ player' = IF player.connected THEN player ELSE NewPlayer
    /\ \E nodes \in BOOLEAN :
          Step(t, IF nodes THEN [tasks[t] EXCEPT !.pc = "pq_search"]
                  ELSE IdleFrame)
    /\ UNCHANGED << sessions, settingsRow, pqRows, history, endEvents,
                    committed, phase, dj_role_id, gateVars, budget >>

\* Playable.search returns; de-duplication, append, _persist_queue
Search(t, uris) ==
    /\ At(t, "pq_search")
    /\ \E inc \in SearchResults(uris) :
          LET s == Session
              e == Enqueue(s.queue, ExistingUris(s.queue), inc,
                           tasks[t].user, 0)
          IN IF inc = << >>
             THEN /\ Step(t, IdleFrame)
                  /\ UNCHANGED sessions
             ELSE /\ Len(e.queue) <= MaxQueue
                  /\ sessions' = WithSession([s EXCEPT !.queue = e.queue])
                  /\ Step(t, [Persist(e.queue, "pq_after", tasks[t])
                                EXCEPT !.num = e.added, !.inc = inc])
    /\ UNCHANGED << player, settingsRow, pqRows, history, endEvents,
                    committed, phase, dj_role_id, gateVars, budget >>

----------------------------------------------------------------------------
(* play_next after its first await                                         *)

\* player.play(next_track) returns; set_volume(session.default_volume) next
Play(t) ==
    /\ At(t, "pn_play")
    /\ player' = IF player.connected
                 THEN [player EXCEPT !.current = tasks[t].trk, !.playing = TRUE]
                 ELSE player
    /\ Step(t, [tasks[t] EXCEPT !.pc = "pn_vol",
                                !.num = Session.default_volume])
    /\ UNCHANGED << sessions, settingsRow, pqRows, history, endEvents,
                    committed, phase, dj_role_id, gateVars, budget >>

\* loop mode track: player.play(player.current) returns, play_next returns
Replay(t) ==
    /\ At(t, "pn_replay")
    /\ player' = IF player.connected
                 THEN [player EXCEPT !.current = tasks[t].trk, !.playing = TRUE]
                 ELSE player
    /\ Step(t, IdleFrame)
    /\ UNCHANGED << sessions, settingsRow, pqRows, history, endEvents,
                    committed, phase, dj_role_id, gateVars, budget >>

\* player.set_volume returns; _persist_queue
PlayVolume(t) ==
    /\ At(t, "pn_vol")
    /\ player' = IF player.connected
                 THEN [player EXCEPT !.volume = tasks[t].num]
                 ELSE player
    /\ sessions' = WithSession(Session)
    /\ Step(t, [Persist(Session.queue, "pn_hist", tasks[t]) EXCEPT !.num = 0])
    /\ UNCHANGED << settingsRow, pqRows, history, endEvents, committed, phase,
                    dj_role_id, gateVars, budget >>

\* the row add_history inserts (played_at left out)
HistoryRow(trk) ==
    [guild_id |-> Guild, title |-> trk.title, uri |-> trk.uri,
     req |-> trk.req]

\* add_history's INSERT; send_or_update_player_embed up to its send
AddHistory(t) ==
    /\ At(t, "hist_ins")
    /\ history' = Append(history, HistoryRow(tasks[t].trk))
    /\ Step(t, IF player.connected /\ player.current # NoTrack
               THEN Frame("emb_send", "", 0, << >>, NoTrack)
               ELSE IdleFrame)
    /\ UNCHANGED << sessions, player, settingsRow, pqRows, endEvents,
                    committed, phase, dj_role_id, gateVars, budget >>

\* text_channel.send returns
EmbedSend(t) ==
    /\ At(t, "emb_send")
    /\ Step(t, Frame("emb_upd", "", 0, << >>, NoTrack))
    /\ UNCHANGED << sessions, player, settingsRow, pqRows, history, endEvents,
                    committed, phase, dj_role_id, gateVars, budget >>

\* set_player_message's UPDATE
EmbedUpdate(t) ==
    /\ At(t, "emb_upd")
    /\ settingsRow' = UpdateRow(settingsRow,
                                [settingsRow EXCEPT !.last_text_channel = 1])
    /\ Step(t, IdleFrame)
    /\ UNCHANGED << sessions, player, pqRows, history, endEvents, committed,
                    phase, dj_role_id, gateVars, budget >>

\* _idle_disconnect: the sleep is over
IdleDisconnect ==
    /\ Session.idle_task = "pending"
    /\ sessions' = WithSession([Session EXCEPT !.idle_task = "done"])
    /\ player' = IF player.connected THEN NoPlayer ELSE player
    /\ UNCHANGED << settingsRow, pqRows, history, tasks, lockq, endEvents,
                    committed, phase, dj_role_id, gateVars, budget >>

----------------------------------------------------------------------------
(* Events of the playback engine                                           *)

\* on_wavelink_track_end for a track that played to its end, or for one that
\* player.skip ended.  Whether the player still names the ended track as its
\* current one when the handler runs is the engine adapter's choice.
TrackEnd(t) ==
    /\ Free(t)
    /\ \/ /\ endEvents = 0
          /\ player.connected /\ player.playing /\ ~player.paused
          /\ UNCHANGED endEvents
       \/ /\ endEvents > 0
          /\ endEvents' = endEvents - 1
    /\ \E cur \in {player.current, NoTrack} :
          player' = IF player.connected
                    THEN [player EXCEPT !.playing = FALSE, !.current = cur]
                    ELSE player
    /\ Step(t, Frame("gs_ins", "te", 0, << >>, NoTrack))
    /\ phase' = "run"
    /\ Spend
    /\ UNCHANGED << sessions, settingsRow, pqRows, history, committed,
                    dj_role_id, gateVars >>

\* on_wavelink_track_exception for the track the player is playing
TrackException(t) ==
    /\ Free(t)
    /\ player.connected /\ player.playing
    /\ Step(t, Frame("ex_log", "", 0, << >>, NoTrack))
    /\ phase' = "run"
    /\ Spend
    /\ UNCHANGED << sessions, player, settingsRow, pqRows, history, endEvents,
                    committed, dj_role_id, gateVars >>

\* a handler that retries three times, which C6_Retry excludes
MayRetryThrice(s) == s.retry_attempts < 3

\* "if session.retry_attempts < 2"
MayRetry(s) == s.retry_attempts < 2

\* handle_track_exception after log_error's INSERT: retry or skip
ExceptionLogged(t) ==
    /\ At(t, "ex_log")
    /\ IF player.current # NoTrack
       THEN LET s == Session
            IN IF MayRetry(s)
               THEN /\ sessions' = WithSession(
                          [s EXCEPT !.retry_attempts = s.retry_attempts + 1])
                    /\ Step(t, Frame("ex_play", "", 0, << >>, player.current))
               ELSE /\ sessions' = WithSession([s EXCEPT !.retry_attempts = 0])
                    /\ Step(t, Frame("ex_skip", "", 0, << >>, NoTrack))
       ELSE /\ Step(t, IdleFrame)
            /\ UNCHANGED sessions
    /\ UNCHANGED << player, settingsRow, pqRows, history, endEvents, committed,
                    phase, dj_role_id, gateVars, budget >>

\* player.play(player.current) of the retry returns
ExceptionReplay(t) ==
    /\ At(t, "ex_play")
    /\ player' = IF player.connected
                 THEN [player EXCEPT !.current = tasks[t].trk, !.playing = TRUE]
                 ELSE player
    /\ Step(t, IdleFrame)
    /\ UNCHANGED << sessions, settingsRow, pqRows, history, endEvents,
                    committed, phase, dj_role_id, gateVars, budget >>

\* player.skip(force=True) returns: the engine ends the track it plays and
\* will report its end
ForceSkip(t) ==
    /\ At(t, "ex_skip")
    /\ IF player.connected /\ player.playing
       THEN /\ endEvents < MaxEnd
            /\ endEvents' = endEvents + 1
       ELSE UNCHANGED endEvents
    /\ Step(t, IdleFrame)
    /\ UNCHANGED << sessions, player, settingsRow, pqRows, history, committed,
                    phase, dj_role_id, gateVars, budget >>

----------------------------------------------------------------------------
(* Queue commands: remove, clear, shuffle, loop                            *)

\* a pop that takes index for 0-based, which C14_RemoveBounds excludes
RemoveAtZeroBased(q, index) ==
    SubSeq(q, 1, index) \o SubSeq(q, index + 2, Len(q))

\* session.queue after session.queue.pop(index - 1)
RemoveAt(q, index) == SubSeq(q, 1, index - 1) \o SubSeq(q, index + 1, Len(q))

\* remove up to its first await: the reply "Invalid queue index." to send, or
\* the deletion and _persist_queue
RemoveBody(f, index) ==
    LET s == Session
    IN IF index < 1 \/ index > Len(s.queue)
       THEN [ss |-> WithSession(s),
             f |-> [f EXCEPT !.pc = "send", !.then = "Invalid queue index."]]
       ELSE [ss |-> WithSession([s EXCEPT !.queue = RemoveAt(s.queue, index)]),
             f |-> Persist(RemoveAt(s.queue, index), "done", f)]

\* clear up to its first await
ClearBody(f) ==
    [ss |-> WithSession([Session EXCEPT !.queue = << >>]),
     f |-> Persist(<< >>, "done", f)]

\* shuffle up to its first await, items being what random.shuffle left
ShuffleBody(f, items) ==
    [ss |-> WithSession([Session EXCEPT !.queue = items]),
     f |-> Persist(items, "done", f)]

Remove(t, index) ==
    /\ Free(t)
    /\ sessions' = RemoveBody(IdleFrame, index).ss
    /\ Step(t, RemoveBody(IdleFrame, index).f)
    /\ phase' = "run"
    /\ Spend
    /\ UNCHANGED << player, settingsRow, pqRows, history, endEvents, committed,
                    dj_role_id, gateVars >>

Clear(t) ==
    /\ Free(t)
    /\ sessions' = ClearBody(IdleFrame).ss
    /\ Step(t, ClearBody(IdleFrame).f)
    /\ phase' = "run"
    /\ Spend
    /\ UNCHANGED << player, settingsRow, pqRows, history, endEvents, committed,
                    dj_role_id, gateVars >>

\* the orders random.shuffle can leave the list in
Shuffles(q) ==
    { [i \in 1..Len(q) |-> q[p[i]]] :
        p \in { f \in [1..Len(q) -> 1..Len(q)] :
                  \A i, j \in 1..Len(q) : i # j => f[i] # f[j] } }

Shuffle(t) ==
    /\ Free(t)
    /\ \E items \in Shuffles(Session.queue) :
          /\ sessions' = ShuffleBody(IdleFrame, items).ss
          /\ Step(t, ShuffleBody(IdleFrame, items).f)
    /\ phase' = "run"
    /\ Spend
    /\ UNCHANGED << player, settingsRow, pqRows, history, endEvents, committed,
                    dj_role_id, gateVars >>

\* the cycle run backwards, which C19_LoopCycle excludes
NextLoopModeBackwards(m) ==
    CASE m = "off" -> "queue"
      [] m = "queue" -> "track"
      [] OTHER -> "off"

NextLoopMode(m) ==
    CASE m = "off" -> "track"
      [] m = "track" -> "queue"
      [] OTHER -> "off"

\* toggle_loop, which has no await
LoopBody(f) ==
    [ss |-> WithSession(
               [Session EXCEPT !.loop_mode = NextLoopMode(Session.loop_mode)]),
     f |-> [f EXCEPT !.pc = "send", !.then = "Loop mode"]]

ToggleLoop ==
    /\ sessions' = LoopBody(IdleFrame).ss
    /\ phase' = "run"
    /\ Spend
    /\ UNCHANGED << player, settingsRow, pqRows, history, tasks, lockq,
                    endEvents, committed, dj_role_id, gateVars >>

----------------------------------------------------------------------------
(* DJ-gated commands: stop, set_volume, seek.  An administrator passes     *)
(* has_dj without an await; any other member after get_guild_settings.     *)

\* without a voice client the command returns "Player is not active."
Command(t, u, then, arg) ==
    /\ Free(t)
    /\ LET f == [Frame("gs_ins", then, u, << >>, NoTrack)
                  EXCEPT !.num = arg, !.arg = arg]
       IN IF ~player.connected
          THEN /\ Step(t, IdleFrame)
               /\ UNCHANGED sessions
          ELSE IF IsAdmin(u)
          THEN /\ sessions' = Gated(f).ss
               /\ Step(t, Gated(f).f)
          ELSE /\ Step(t, f)
               /\ UNCHANGED sessions
    /\ phase' = "run"
    /\ Spend
    /\ UNCHANGED << player, settingsRow, pqRows, history, endEvents, committed,
                    dj_role_id, gateVars >>

Stop(t, u) == Command(t, u, "dj_stop", 0)

SetVolume(t, u, volume) == Command(t, u, "dj_vol", volume)

Seek(t, u, seconds) == Command(t, u, "dj_seek", seconds)

\* stop: player.disconnect(force=True) returns
Disconnect(t) ==
    /\ At(t, "stop_disc")
    /\ player' = NoPlayer
    /\ Step(t, IdleFrame)
    /\ UNCHANGED << sessions, settingsRow, pqRows, history, endEvents,
                    committed, phase, dj_role_id, gateVars, budget >>

\* store.set_volume's UPDATE; then guild.voice_client.set_volume, which
\* raises AttributeError when the voice client is gone
VolumeUpdate(t) ==
    /\ At(t, "vol_upd")
    /\ settingsRow' = UpdateRow(settingsRow,
                                [settingsRow EXCEPT !.volume = tasks[t].num])
    /\ Step(t, IF player.connected
               THEN [tasks[t] EXCEPT !.pc = "vol_set"]
               ELSE IdleFrame)
    /\ UNCHANGED << sessions, player, pqRows, history, endEvents, committed,
                    phase, dj_role_id, gateVars, budget >>

PlayerVolume(t) ==
    /\ At(t, "vol_set")
    /\ player' = IF player.connected
                 THEN [player EXCEPT !.volume = tasks[t].num]
                 ELSE player
    /\ Step(t, IdleFrame)
    /\ UNCHANGED << sessions, settingsRow, pqRows, history, endEvents,
                    committed, phase, dj_role_id, gateVars, budget >>

PlayerSeek(t) ==
    /\ At(t, "seek")
    /\ player' = IF player.connected
                 THEN [player EXCEPT !.position = tasks[t].num]
                 ELSE player
    /\ Step(t, IdleFrame)
    /\ UNCHANGED << sessions, settingsRow, pqRows, history, endEvents,
                    committed, phase, dj_role_id, gateVars, budget >>

\* the dj command of on_message: "dj <role_id>", or "dj off" for role 0;
\* only an administrator reaches set_dj_role
SetDjRole(t, u, role) ==
    /\ Free(t)
    /\ Step(t, IF IsAdmin(u)
               THEN [Frame("dj_upd", "", u, << >>, NoTrack) EXCEPT !.num = role]
               ELSE [Frame("send", "Administrator only.", u, << >>, NoTrack)
                       EXCEPT !.num = role])
    /\ phase' = "run"
    /\ Spend
    /\ UNCHANGED << sessions, player, settingsRow, pqRows, history, endEvents,
                    committed, dj_role_id, gateVars >>

\* set_dj_role's UPDATE
DjUpdate(t) ==
    /\ At(t, "dj_upd")
    /\ settingsRow' = UpdateRow(settingsRow,
                                [settingsRow EXCEPT !.dj_role = tasks[t].num])
    /\ Step(t, [tasks[t] EXCEPT !.pc = "send", !.then = "DJ role"])
    /\ UNCHANGED << sessions, player, pqRows, history, endEvents, committed,
                    phase, dj_role_id, gateVars, budget >>

----------------------------------------------------------------------------
(* set_filter and set_speed_pitch; speeds and pitches in hundredths        *)

FilterNames == {"bass", "vocal", "nightcore", "8d", "karaoke", "tremolo",
                "vibrato", "off"}

\* the payload table of set_filter; a name it lacks gets {}
FilterPayload(name) ==
    CASE name = "nightcore" -> [kind |-> "timescale", speed |-> 115, pitch |-> 120]
      [] name \in FilterNames \ {"nightcore", "off"} ->
            [kind |-> name, speed |-> 100, pitch |-> 100]
      [] OTHER -> NoFilter

SpeedPitchPayload(speed, pitch) ==
    [kind |-> "timescale", speed |-> Clamp(50, 200, speed),
     pitch |-> Clamp(50, 200, pitch)]

SetFilter(t, u, filter_name) ==
    /\ Free(t)
    /\ player.connected
    /\ Step(t, [Frame("flt_set", "", u, << >>, NoTrack)
                  EXCEPT !.flt = FilterPayload(filter_name)])
    /\ phase' = "run"
    /\ Spend
    /\ UNCHANGED << sessions, player, settingsRow, pqRows, history, endEvents,
                    committed, dj_role_id, gateVars >>

SetSpeedPitch(t, u, speed, pitch) ==
    /\ Free(t)
    /\ player.connected
    /\ Step(t, [Frame("flt_set", "", u, << >>, NoTrack)
                  EXCEPT !.flt = SpeedPitchPayload(speed, pitch)])
    /\ phase' = "run"
    /\ Spend
    /\ UNCHANGED << sessions, player, settingsRow, pqRows, history, endEvents,
                    committed, dj_role_id, gateVars >>

\* player.set_filters returns
PlayerFilters(t) ==
    /\ At(t, "flt_set")
    /\ player' = IF player.connected
                 THEN [player EXCEPT !.filters = tasks[t].flt]
                 ELSE player
    /\ Step(t, IdleFrame)
    /\ UNCHANGED << sessions, settingsRow, pqRows, history, endEvents,
                    committed, phase, dj_role_id, gateVars, budget >>

----------------------------------------------------------------------------
(* Process restart and on_ready's restore_for_guild                        *)

\* the process ends and starts again: memory is lost, the database is kept
Restart ==
    /\ sessions' = << >>
    /\ player' = NoPlayer
    /\ tasks' = [t \in Slots |-> IdleFrame]
    /\ lockq' = << >>
    /\ endEvents' = 0
    /\ phase' = "boot"
    /\ Spend
    /\ UNCHANGED << settingsRow, pqRows, history, committed, dj_role_id, gateVars >>

OnReady(t) ==
    /\ Free(t)
    /\ Step(t, Frame("rs_load", "", 0, << >>, NoTrack))
    /\ phase' = IF phase = "boot" THEN "recovering" ELSE "run"
    /\ Spend
    /\ UNCHANGED << sessions, player, settingsRow, pqRows, history, endEvents,
                    committed, dj_role_id, gateVars >>

\* load_queue's SELECT, then the loop that appends the rebuilt tracks
Restore(t) ==
    /\ At(t, "rs_load")
    /\ LET loaded == LoadQueue(pqRows)
       IN IF loaded = << >>
          THEN UNCHANGED sessions
          ELSE /\ Len(Session.queue) + Len(loaded) <= MaxQueue
               /\ sessions' = WithSession(
                     [Session EXCEPT !.queue = Session.queue \o loaded])
    /\ Step(t, IdleFrame)
    /\ phase' = IF phase = "recovering" THEN "recovered" ELSE phase
    /\ UNCHANGED << player, settingsRow, pqRows, history, endEvents, committed,
                    dj_role_id, gateVars, budget >>

\* message.channel.send(reply) returns and the handler with it
Send(t) ==
    /\ At(t, "send")
    /\ Step(t, IdleFrame)
    /\ UNCHANGED << sessions, player, settingsRow, pqRows, history, endEvents,
                    committed, phase, dj_role_id, gateVars, budget >>

----------------------------------------------------------------------------
(* on_message: the flood window, the cooldown gate, the dispatch           *)

\* the clock when the process starts; a record is older than any window then
StartTime == 2
MaxTicks == 2        \* ticks the clock may advance in one run

NoGate == [gld |-> 0, user |-> 0, cmd |-> "", verdict |-> "none"]

Verdict(g, u, word, v) == [gld |-> g, user |-> u, cmd |-> word, verdict |-> v]

\* the guilds that send messages; the controller's state is followed for
\* Guild alone
MessageGuilds == {1, 2}

\* on_message's set known
Known == {"play", "pause", "resume", "skip", "stop", "queue", "remove",
          "clear", "shuffle", "loop", "volume", "seek", "dj", "filter",
          "speed", "pitch"}

\* "now - last < 0.6" and is_on_cooldown(..., 1.2), in ticks
FloodTicks == 1
CooldownTicks == 2

\* user_message_window.get(author.id, 0)
WindowOf(u) == IF u \in DOMAIN window THEN window[u] ELSE 0

\* dict and table writes
Put(f, k, v) == [x \in DOMAIN f \cup {k} |-> IF x = k THEN v ELSE f[x]]

CooldownKey(f) == << f.gld, f.user, f.cmd >>

\* a throttle that also rejects a record exactly one window old, which
\* C17_Cooldown excludes
ThrottledAtEdge(k, time) ==
    k \in DOMAIN cooldowns /\ time - cooldowns[k] <= CooldownTicks

\* "rows and now - rows[0]['last_used'] < cooldown_s"
Throttled(k, time) ==
    k \in DOMAIN cooldowns /\ time - cooldowns[k] < CooldownTicks

\* time passes
Tick ==
    /\ now < StartTime + MaxTicks
    /\ now' = now + 1
    /\ UNCHANGED << sessions, player, settingsRow, pqRows, history, tasks,
                    lockq, endEvents, committed, phase, dj_role_id, budget,
                    cooldowns, window, gate, escaped, nukeVars >>

\* on_message up to is_on_cooldown's SELECT: the flood window (which is
\* written before the content is looked at), the empty or unknown word
OnMessage(t, g, u, word, arg) ==
    /\ Free(t)
    /\ IF now - WindowOf(u) < FloodTicks
       THEN /\ gate' = Verdict(g, u, word, "flood")
            /\ UNCHANGED << window, tasks, lockq >>
       ELSE /\ window' = Put(window, u, now)
            /\ IF word \notin Known
               THEN /\ gate' = Verdict(g, u, word, "ignored")
                    /\ UNCHANGED << tasks, lockq >>
               ELSE /\ gate' = Verdict(g, u, word, "checking")
                    /\ Step(t, [IdleFrame EXCEPT !.pc = "cd_sel", !.cmd = word,
                                                 !.gld = g, !.user = u,
                                                 !.arg = arg])
    /\ phase' = "run"
    /\ Spend
    /\ UNCHANGED << sessions, player, settingsRow, pqRows, history, endEvents,
                    committed, dj_role_id, cooldowns, now, escaped, nukeVars >>

\* is_on_cooldown's SELECT returns; now = time.time(); throttled, or on to
\* the upsert
CooldownSelect(t) ==
    /\ At(t, "cd_sel")
    /\ LET f == tasks[t]
       IN IF Throttled(CooldownKey(f), now)
          THEN /\ Step(t, IdleFrame)
               /\ gate' = Verdict(f.gld, f.user, f.cmd, "throttled")
          ELSE /\ Step(t, [f EXCEPT !.pc = "cd_ups", !.num = now])
               /\ UNCHANGED gate
    /\ UNCHANGED << sessions, player, settingsRow, pqRows, history, endEvents,
                    committed, phase, dj_role_id, budget, cooldowns, now,
                    window, escaped, nukeVars >>

\* the try block of on_message from the command word to the first await of
\* the command: remove, clear, shuffle and loop call the controller without
\* a look at the author.  A command of another guild, and the commands this
\* model does not dispatch, only send their reply.
Dispatch(f, items) ==
    LET g == [f EXCEPT !.num = 0]
    IN CASE f.gld # Guild -> [ss |-> sessions, f |-> [g EXCEPT !.pc = "send"]]
         [] f.cmd = "remove" -> RemoveBody(g, f.arg)
         [] f.cmd = "clear" -> ClearBody(g)
         [] f.cmd = "shuffle" -> ShuffleBody(g, items)
         [] f.cmd = "loop" -> LoopBody(g)
         [] OTHER -> [ss |-> sessions, f |-> [g EXCEPT !.pc = "send"]]

\* is_on_cooldown's upsert returns False and on_message dispatches
CooldownUpsert(t) ==
    /\ At(t, "cd_ups")
    /\ LET f == tasks[t]
       IN /\ cooldowns' = Put(cooldowns, CooldownKey(f), f.num)
          /\ gate' = Verdict(f.gld, f.user, f.cmd, "accepted")
          /\ \E items \in (IF f.cmd = "shuffle" /\ f.gld = Guild
                            THEN Shuffles(Session.queue) ELSE {<< >>}) :
                /\ sessions' = Dispatch(f, items).ss
                /\ Step(t, Dispatch(f, items).f)
    /\ UNCHANGED << player, settingsRow, pqRows, history, endEvents,
                    committed, phase, dj_role_id, budget, now, window,
                    escaped, nukeVars >>

\* a statement of the store raises while on_message handles a command:
\* inside the try block the except clause takes over with log_error; in
\* is_on_cooldown, which is called before the try, and in the except
\* clause's own log_error, the exception leaves on_message
StoreFault(t) ==
    /\ tasks[t].cmd # ""
    /\ tasks[t].pc \in StorePcs
    /\ At(t, tasks[t].pc)
    /\ IF tasks[t].pc \in {"cd_sel", "cd_ups", "cmd_log"}
       THEN /\ Step(t, IdleFrame)
            /\ escaped' = TRUE
       ELSE /\ Step(t, [IdleFrame EXCEPT !.pc = "cmd_log",
                                         !.cmd = tasks[t].cmd,
                                         !.gld = tasks[t].gld,
                                         !.user = tasks[t].user])
            /\ UNCHANGED escaped
    /\ UNCHANGED << sessions, player, settingsRow, pqRows, history, endEvents,
                    committed, phase, dj_role_id, budget, cooldowns, now,
                    window, gate, nukeVars >>

\* the except clause's log_error returns; "Command failed. Error logged."
CommandLogged(t) ==
    /\ At(t, "cmd_log")
    /\ Step(t, [tasks[t] EXCEPT !.pc = "send", !.then = "Command failed."])
    /\ UNCHANGED << sessions, player, settingsRow, pqRows, history, endEvents,
                    committed, phase, dj_role_id, gateVars, budget >>

----------------------------------------------------------------------------
(* anti_nuke.py: on_guild_channel_delete and the trust commands            *)

Channels == {1, 2, 3}

\* no deletion of the channel has been seen
NoDelete == [pc |-> "none", user |-> 0]

musicVars == << sessions, player, settingsRow, pqRows, history, tasks, lockq,
                endEvents, committed, phase, dj_role_id, budget, cooldowns,
                now, window, gate, escaped >>

\* a member who is not banned deletes channel c: Discord writes the audit
\* entry and delivers on_guild_channel_delete, which runs up to its await of
\* the audit log
OnGuildChannelDelete(c, u) ==
    /\ handlers[c].pc = "none"
    /\ u \notin banned
    /\ audit_logs' = Append(audit_logs, [target |-> c, user |-> u])
    /\ deleter' = [deleter EXCEPT ![c] = u]
    /\ handlers' = [handlers EXCEPT ![c] = [pc |-> "lookup", user |-> 0]]
    /\ UNCHANGED << musicVars, recreated, banned, TRUSTED_USER_IDS >>

\* get_audit_log_entry_for_channel_delete: audit_logs(limit=1) yields the
\* latest channel_delete entry, which is returned if its target is the
\* channel; then the handler's tests of the entry and of the trusted list
GetAuditLogEntry(c) ==
    /\ handlers[c].pc = "lookup"
    /\ LET entry == audit_logs[Len(audit_logs)]
       IN handlers' = [handlers EXCEPT ![c] =
             IF entry.target # c THEN [pc |-> "done", user |-> 0]
             ELSE IF entry.user \in TRUSTED_USER_IDS
             THEN [pc |-> "done", user |-> 0]
             ELSE [pc |-> "create", user |-> entry.user]]
    /\ UNCHANGED << musicVars, audit_logs, deleter, recreated, banned,
                    TRUSTED_USER_IDS >>

\* guild.create_text_channel (or its siblings) returns
CreateChannel(c) ==
    /\ handlers[c].pc = "create"
    /\ recreated' = recreated \cup {c}
    /\ handlers' = [handlers EXCEPT ![c].pc = "ban"]
    /\ UNCHANGED << musicVars, audit_logs, deleter, banned,
                    TRUSTED_USER_IDS >>

\* guild.ban(user) returns, and the handler with it
GuildBan(c) ==
    /\ handlers[c].pc = "ban"
    /\ banned' = banned \cup {handlers[c].user}
    /\ handlers' = [handlers EXCEPT ![c] = [pc |-> "done", user |-> 0]]
    /\ UNCHANGED << musicVars, audit_logs, deleter, recreated,
                    TRUSTED_USER_IDS >>

\* the trust command of an administrator
add_trusted(u) ==
    /\ u \notin TRUSTED_USER_IDS
    /\ TRUSTED_USER_IDS' = TRUSTED_USER_IDS \cup {u}
    /\ UNCHANGED << musicVars, audit_logs, handlers, deleter, recreated,
                    banned >>

\* the untrust command of an administrator
remove_trusted(u) ==
    /\ u \in TRUSTED_USER_IDS
    /\ TRUSTED_USER_IDS' = TRUSTED_USER_IDS \ {u}
    /\ UNCHANGED << musicVars, audit_logs, handlers, deleter, recreated,
                    banned >>

----------------------------------------------------------------------------
(* Specifications                                                          *)

\* the process has started on an empty database
InitWith(events, roles) ==
    /\ sessions = << >>
    /\ player = NoPlayer
    /\ settingsRow = NoRow
    /\ pqRows = {}
    /\ history = << >>
    /\ tasks = [t \in Slots |-> IdleFrame]
    /\ lockq = << >>
    /\ endEvents = 0
    /\ committed = << >>
    /\ phase = "boot"
    /\ dj_role_id \in roles
    /\ budget = events
    /\ cooldowns = << >>
    /\ now = StartTime
    /\ window = << >>
    /\ gate = NoGate
    /\ escaped = FALSE
    /\ audit_logs = << >>
    /\ handlers = [c \in Channels |-> NoDelete]
    /\ deleter = [c \in Channels |-> 0]
    /\ recreated = {}
    /\ banned = {}
    /\ TRUSTED_USER_IDS = {}

\* the steps of get_guild_settings, save_queue and play_query/play_next
Common(t) ==
    \/ SettingsInsert(t)
    \/ SettingsSelect(t)
    \/ SaveDelete(t)
    \/ SaveInsert(t)
    \/ EnsurePlayer(t)
    \/ Play(t)
    \/ PlayVolume(t)
    \/ AddHistory(t)
    \/ EmbedSend(t)
    \/ EmbedUpdate(t)

\* Spec: the queue commands and the engine's track ends, as overlapping
\* handlers of one process
Init == InitWith(MaxEvents, {0})

Next ==
    \/ \E t \in Slots :
          \/ Common(t)
          \/ PlayQuery(t, 3)
          \/ Search(t, {1, 2})
          \/ TrackEnd(t)
          \/ \E index \in 0..MaxQueue : Remove(t, index)
          \/ Send(t)
          \/ Clear(t)
          \/ Shuffle(t)
          \/ Stop(t, 3)
          \/ Disconnect(t)
    \/ IdleDisconnect

Spec == Init /\ [][Next]_vars

\* SpecRecovery: restarts and on_ready's restore beside commands
NextRecovery ==
    \/ \E t \in Slots :
          \/ Common(t)
          \/ PlayQuery(t, 3)
          \/ Search(t, {1, 2})
          \/ TrackEnd(t)
          \/ \E index \in 0..MaxQueue : Remove(t, index)
          \/ Send(t)
          \/ Clear(t)
          \/ OnReady(t)
          \/ Restore(t)
    \/ IdleDisconnect
    \/ Restart

SpecRecovery == Init /\ [][NextRecovery]_vars

\* SpecDispatch: on_message's gates before the queue commands, one handler
\* at a time, with store statements that may raise
Words == {"remove", "clear", "shuffle", "loop", "hello"}

InitDispatch == InitWith(MaxEvents, {0, 1})

NextDispatch ==
    \E t \in {1} :
       \/ Common(t)
       \/ PlayQuery(t, 3)
       \/ Search(t, {1, 2})
       \/ \E g \in MessageGuilds, u \in {2, 3}, word \in Words :
             OnMessage(t, g, u, word, 1)
       \/ CooldownSelect(t)
       \/ CooldownUpsert(t)
       \/ StoreFault(t)
       \/ CommandLogged(t)
       \/ Send(t)

\* SpecCommands: the queue commands and restarts of one process, one
\* handler at a time, with searches that return the author-less track
NextCommands ==
    \/ \E t \in {1} :
          \/ Common(t)
          \/ PlayQuery(t, 3)
          \/ Search(t, {1, 2, 3})
          \/ \E index \in 0..MaxQueue : Remove(t, index)
          \/ Send(t)
          \/ Clear(t)
          \/ Shuffle(t)
          \/ OnReady(t)
          \/ Restore(t)
    \/ ToggleLoop
    \/ Restart

CommandEvents == MaxEvents + 1

InitCommands == InitWith(CommandEvents, {0})

SpecCommands == InitCommands /\ [][NextCommands]_vars

\* SpecNuke: the anti-nuke bot, with channel deletions close enough for the
\* delete handlers to overlap
NextNuke ==
    \/ \E c \in Channels :
          \/ \E u \in {2, 3} : OnGuildChannelDelete(c, u)
          \/ GetAuditLogEntry(c)
          \/ CreateChannel(c)
          \/ GuildBan(c)
    \/ \E u \in {2, 3} : add_trusted(u) \/ remove_trusted(u)

SpecNuke == Init /\ [][NextNuke]_vars

SpecDispatch == InitDispatch /\ [][NextDispatch]_vars

\* SpecGate: the flood window and the cooldown gate as time passes, one
\* message at a time
GateWords == {"clear", "loop", "hello"}

NextGate ==
    \/ \E t \in {1} :
          \/ \E g \in MessageGuilds, u \in {2, 3}, word \in GateWords :
                OnMessage(t, g, u, word, 0)
          \/ CooldownSelect(t)
          \/ CooldownUpsert(t)
          \/ SaveDelete(t)
          \/ Send(t)
    \/ Tick

SpecGate == Init /\ [][NextGate]_vars

\* SpecLoop: one handler at a time, with the loop modes and the engine's
\* track exceptions
LoopEvents == MaxEvents + 2

InitLoop == InitWith(LoopEvents, {0})

NextLoop ==
    \/ \E t \in {1} :
          \/ Common(t)
          \/ PlayQuery(t, 3)
          \/ Search(t, Uris)
          \/ TrackEnd(t)
          \/ Replay(t)
          \/ TrackException(t)
          \/ ExceptionLogged(t)
          \/ ExceptionReplay(t)
          \/ ForceSkip(t)
    \/ ToggleLoop
    \/ IdleDisconnect

SpecLoop == InitLoop /\ [][NextLoop]_vars

\* SpecControls: one handler at a time, the player controls of every kind of
\* member, with and without a DJ role in the process configuration
Volumes == {-10, 0, 50, 250}
Seconds == {-5, 30}
Factors == {25, 150}

InitControls == InitWith(MaxEvents, {0, 1, 2})

NextControls ==
    \E t \in {1} :
          \/ Common(t)
          \/ PlayQuery(t, 3)
          \/ Search(t, {1, 2})
          \/ \E u \in Users :
                \/ Stop(t, u)
                \/ \E volume \in Volumes : SetVolume(t, u, volume)
                \/ \E seconds \in Seconds : Seek(t, u, seconds)
                \/ \E name \in {"bass", "nightcore", "off", "echo"} :
                      SetFilter(t, u, name)
                \/ \E v \in Factors : SetSpeedPitch(t, u, v, 100)
                \/ \E v \in Factors : SetSpeedPitch(t, u, 100, v)
          \/ VolumeUpdate(t)
          \/ PlayerVolume(t)
          \/ PlayerSeek(t)
          \/ PlayerFilters(t)
          \/ Disconnect(t)
          \/ \E u \in {1, 2}, role \in {0, 1, 2} : SetDjRole(t, u, role)
          \/ DjUpdate(t)
          \/ Send(t)

SpecControls == InitControls /\ [][NextControls]_vars

----------------------------------------------------------------------------
(* The claims                                                              *)

\* C1: once an empty-queue play_next has armed the idle timer, a later
\* successful play_query or stop cancels it, so the timer never fires -- and
\* never disconnects the player -- while a newly started track is playing.
C1_IdleTimerCancelled ==
    [][(Session.idle_task = "pending" /\ Session'.idle_task = "done")
          => ~player.playing]_vars

\* C2: whenever no handler is in flight, the rows of persistent_queue are
\* exactly the in-memory pending queue, in order at positions 0..n-1,
\* whatever the interleaving of play_query, play_next, remove, clear,
\* shuffle and stop was.
C2_DurableMatchesMemory ==
    NoHandler => pqRows = RowsOf(StoredSeq(Session.queue))

\* the complete snapshots a reader may see if save_queue is atomic: the one
\* of the latest save that returned, or the one of a save in progress
Savers == { t \in Slots : tasks[t].pc \in {"sv_del", "sv_ins"} }
WholeSnapshots ==
    {RowsOf(committed)} \cup { RowsOf(tasks[t].snap) : t \in Savers }

\* C3: save_queue is atomic: a load_queue that runs beside it reads either
\* the complete old snapshot or the complete new one, never the emptied table
\* or a part of the new rows.
C3_SaveAtomic ==
    [][\A t \in Slots :
          (tasks[t].pc = "rs_load" /\ tasks'[t].pc = "idle" /\ phase' # "boot")
             => pqRows \in WholeSnapshots]_vars

\* the number of rows that precede row r in ascending position
RankOf(r) == Cardinality({ o \in pqRows : o.pos < r.pos })

C5_FirstAccessSeesSnapshot ==
    [][(Guild \notin DOMAIN sessions /\ Guild \in DOMAIN sessions')
          => StoredSeq(sessions'[Guild].queue) = SortedRows(pqRows')]_vars

ExceptionPcs == {"ex_log", "ex_play", "ex_skip"}

\* C6: with a track current, the exception handler replays that track while
\* retry_attempts is 0 or 1 and adds one to it; at 2 it force-skips and
\* resets the counter to 0; the counter never exceeds 2, and no step of the
\* handler changes the pending queue in memory or in the store.
C6_Retry ==
    [][\A t \in Slots :
          (tasks[t].pc \in ExceptionPcs /\ tasks'[t] # tasks[t]) =>
             /\ Session'.queue = Session.queue
             /\ pqRows' = pqRows
             /\ (tasks[t].pc = "ex_log" /\ player.current # NoTrack) =>
                   IF Session.retry_attempts < 2
                   THEN /\ Session'.retry_attempts = Session.retry_attempts + 1
                        /\ tasks'[t].pc = "ex_play"
                        /\ tasks'[t].trk = player.current
                   ELSE /\ Session.retry_attempts = 2
                        /\ Session'.retry_attempts = 0
                        /\ tasks'[t].pc = "ex_skip"
             /\ (tasks[t].pc = "ex_play" /\ player.connected) =>
                   /\ player'.current = tasks[t].trk
                   /\ player'.playing
             /\ (tasks[t].pc = "ex_skip" /\ player.connected /\ player.playing)
                   => endEvents' = endEvents + 1]_vars

\* the third exception in a row has been handled: the handler is about to
\* force-skip, the counter is back at 0 and the pending queue still holds
\* its track
C6_Witness ==
    \E t \in Slots :
       /\ tasks[t].pc = "ex_skip"
       /\ Session.retry_attempts = 0
       /\ player.current # NoTrack
       /\ Session.queue # << >>
       /\ pqRows = RowsOf(StoredSeq(Session.queue))

\* C7: play_query appends exactly the incoming tracks whose uri is neither in
\* the pending queue, nor the playing track's, nor earlier in the same
\* batch -- each once, behind the queue as it was -- and the count it reports
\* is the number of tracks it appended (0 when all are duplicates).
C7_Dedup ==
    [][\A t \in Slots :
          (tasks[t].pc = "pq_search" /\ tasks'[t].pc = "sv_del") =>
             LET old == Session.queue
                 new == Session'.queue
                 inc == tasks'[t].inc
                 known == UrisOf(old) \cup {player.current.uri}
                 app == SubSeq(new, Len(old) + 1, Len(new))
             IN /\ Len(new) >= Len(old)
                /\ SubSeq(new, 1, Len(old)) = old
                /\ UrisOf(app) = { inc[i] : i \in DOMAIN inc } \ known
                /\ \A i, j \in DOMAIN app : i # j => app[i].uri # app[j].uri
                /\ tasks'[t].num = Len(app)]_vars

\* a batch of two tracks has been handled while its first track was playing:
\* one track was appended, one was skipped
C7_Witness ==
    \E t \in Slots :
       /\ tasks[t].pc = "sv_del"
       /\ tasks[t].then = "pq_after"
       /\ Len(tasks[t].inc) = 2
       /\ tasks[t].num = 1
       /\ player.current # NoTrack
       /\ player.current.uri = tasks[t].inc[1]
       /\ player.current.uri \notin UrisOf(Session.queue)

\* handle_track_end is about to call play_next for a connected player that
\* still names the ended track as its current one
Advances(t) ==
    /\ tasks[t].pc = "gs_sel"
    /\ tasks[t].then = "te"
    /\ tasks'[t].pc # "gs_sel"
    /\ settingsRow.last_text_channel # 0
    /\ player.connected
    /\ player.current # NoTrack

Authorised(u) ==
    IsAdmin(u) \/ HasDjRole(InsertOrIgnore(settingsRow), u)

\* C10: set_volume, seek, set_filter and set_speed_pitch require DJ
\* authorisation: a call of a member who is no administrator and lacks the
\* configured DJ role does not change the player.
C10_DjGated ==
    [][\A t \in Slots :
          (tasks[t].pc \in {"vol_set", "seek", "flt_set"}
             /\ tasks'[t].pc = "idle" /\ player' # player)
             => Authorised(tasks[t].user)]_vars

\* C11: remove, clear, shuffle and loop consult the DJ check like pause,
\* skip and stop: a step of such a command changes the pending queue, the
\* durable snapshot or the loop mode only for a member has_dj accepts.
C11_QueueCommandsGated ==
    [][\A t \in Slots :
          (/\ tasks[t].cmd \in {"remove", "clear", "shuffle", "loop"}
           /\ \/ Session'.queue # Session.queue
              \/ Session'.loop_mode # Session.loop_mode
              \/ pqRows' # pqRows)
             => Authorised(tasks[t].user)]_vars

\* a handler that has just been through, or is waiting for, the DJ check of
\* stop, set_volume or seek
DjThens == {"dj_stop", "dj_vol", "dj_seek"}

PastDjCheck(f) ==
    \/ f.pc = "sv_del" /\ f.then = "stop_disc"
    \/ f.pc \in {"vol_upd", "seek"}

\* C12: has_dj lets every administrator pass (without a look at the
\* settings); for any other member the effective role is the guild's stored
\* role if set, else the process-wide one; with neither set the member
\* passes, otherwise the member passes exactly when holding that role.
C12_HasDj ==
    [][\A t \in Slots :
          /\ (/\ tasks[t].pc = "idle"
              /\ \/ PastDjCheck(tasks'[t])
                 \/ tasks'[t].pc = "gs_ins" /\ tasks'[t].then \in DjThens)
                => (IsAdmin(tasks'[t].user) <=> PastDjCheck(tasks'[t]))
          /\ (tasks[t].pc = "gs_sel" /\ tasks[t].then \in DjThens
                /\ tasks'[t].pc # "gs_sel") =>
                LET stored == settingsRow.dj_role
                    role == IF stored # 0 THEN stored ELSE dj_role_id
                    passes == role = 0 \/ role \in RolesOf(tasks[t].user)
                IN /\ ~IsAdmin(tasks[t].user)
                   /\ passes <=> PastDjCheck(tasks'[t])
                   /\ ~passes <=> tasks'[t].pc = "idle"]_vars

\* a member who holds the guild's stored role is past the check of seek
\* although the process-wide role is another one
C12_Witness ==
    \E t \in Slots :
       /\ tasks[t].pc = "seek"
       /\ tasks[t].user = 2
       /\ settingsRow.dj_role = 1
       /\ dj_role_id = 2

\* C13: load_queue after a completed save_queue, with no write between
\* them, returns the saved sequence: every field of every entry, in the same
\* order (here for the load of restore_for_guild into a fresh session).
C13_RoundTrip ==
    [][\A t \in Slots :
          (/\ tasks[t].pc = "rs_load"
           /\ tasks'[t].pc = "idle"
           /\ pqRows = RowsOf(committed)
           /\ Session.queue = << >>)
             => StoredSeq(Session'.queue) = committed]_vars

\* C14: remove(index) on a pending queue of length n replies "Invalid queue
\* index." and leaves queue and durable snapshot as they are when index < 1
\* or index > n; otherwise the queue loses exactly its index-th entry, the
\* others keep their order, and save_queue is started on the new queue and,
\* when it returns, has left exactly that queue as the durable snapshot.
C14_RemoveBounds ==
    [][\A t \in Slots :
          /\ \A index \in 0..MaxQueue :
                Remove(t, index) =>
                  LET q == Session.queue
                      n == Len(q)
                  IN IF index < 1 \/ index > n
                     THEN /\ tasks'[t].pc = "send"
                          /\ tasks'[t].then = "Invalid queue index."
                          /\ Session'.queue = q
                          /\ pqRows' = pqRows
                     ELSE /\ Len(Session'.queue) = n - 1
                          /\ \A i \in 1..(n - 1) :
                                Session'.queue[i] =
                                   IF i < index THEN q[i] ELSE q[i + 1]
                          /\ tasks'[t].pc = "sv_del"
                          /\ tasks'[t].snap = StoredSeq(Session'.queue)
          /\ (/\ tasks[t].pc \in {"sv_del", "sv_ins"}
              /\ tasks[t].then = "done"
              /\ tasks'[t].pc = "idle"
              /\ budget' = budget)
                => /\ pqRows' = RowsOf(tasks[t].snap)
                   /\ Session'.queue = Session.queue]_vars

\* remove has answered "Invalid queue index." on a queue that holds tracks
C14_Witness ==
    \E t \in Slots :
       /\ tasks[t].pc = "send"
       /\ tasks[t].then = "Invalid queue index."
       /\ Len(Session.queue) = 2
       /\ pqRows = RowsOf(StoredSeq(Session.queue))

\* the guild's pending queue, durable snapshot and voice connection
StopScope == << Session.queue, pqRows, player.connected >>

\* C15: stop by a member who passes the DJ check, with an active player,
\* empties the pending queue, then the durable snapshot, then disconnects,
\* and returns with all three so; stop by a member who fails the check, or
\* with no active player, changes none of the three at any of its steps.
C15_Stop ==
    [][\A t \in Slots :
          /\ \A u \in Users :
                Stop(t, u) =>
                  IF ~player.connected
                  THEN tasks'[t].pc = "idle" /\ StopScope' = StopScope
                  ELSE IF IsAdmin(u)
                  THEN /\ Session'.queue = << >>
                       /\ tasks'[t].pc = "sv_del"
                       /\ tasks'[t].snap = << >>
                       /\ tasks'[t].then = "stop_disc"
                  ELSE tasks'[t].pc = "gs_ins" /\ StopScope' = StopScope
          /\ (tasks[t].then = "dj_stop" /\ tasks[t].pc = "gs_ins")
                => (tasks'[t].pc = "gs_sel" /\ StopScope' = StopScope)
          /\ (tasks[t].then = "dj_stop" /\ tasks[t].pc = "gs_sel")
                => IF Authorised(tasks[t].user)
                   THEN /\ Session'.queue = << >>
                        /\ tasks'[t].pc = "sv_del"
                        /\ tasks'[t].snap = << >>
                        /\ tasks'[t].then = "stop_disc"
                   ELSE tasks'[t].pc = "idle" /\ StopScope' = StopScope
          /\ (tasks[t].then = "stop_disc" /\ tasks[t].pc = "sv_del")
                => /\ tasks'[t].pc = "stop_disc"
                   /\ pqRows' = {}
                   /\ Session'.queue = << >>
          /\ tasks[t].pc = "stop_disc"
                => /\ tasks'[t].pc = "idle"
                   /\ StopScope' = << << >>, {}, FALSE >>]_vars

\* stop by a holder of the DJ role has passed the check and emptied the
\* queue; the durable snapshot still holds what was pending
C15_Witness ==
    \E t \in Slots :
       /\ tasks[t].pc = "sv_del"
       /\ tasks[t].then = "stop_disc"
       /\ tasks[t].user = 2
       /\ dj_role_id = 1
       /\ pqRows # {}
       /\ player.connected

\* C16: no exception raised while a recognized command is handled leaves
\* on_message, a fault of the store in the cooldown check or in the write of
\* the error log included.
C16_NoEscape == ~escaped

\* C17: is_on_cooldown answers throttled exactly when the key has a
\* last-used record and less than the window has passed since it; a throttled
\* call leaves every record as it is, an accepted call sets the key's record
\* to its now and no other, and two accepted calls of one key are at least a
\* window apart.
C17_Cooldown ==
    [][\A t \in Slots :
          LET k == CooldownKey(tasks[t])
          IN /\ (tasks[t].pc = "cd_sel" /\ tasks'[t].pc # "cd_sel") =>
                   LET throttled == /\ k \in DOMAIN cooldowns
                                    /\ now - cooldowns[k] < CooldownTicks
                   IN /\ cooldowns' = cooldowns
                      /\ throttled <=> /\ tasks'[t].pc = "idle"
                                       /\ gate'.verdict = "throttled"
                      /\ ~throttled <=> /\ tasks'[t].pc = "cd_ups"
                                        /\ tasks'[t].num = now
             /\ (tasks[t].pc = "cd_ups" /\ tasks'[t].pc # "cd_ups") =>
                   /\ gate'.verdict = "accepted"
                   /\ DOMAIN cooldowns' = DOMAIN cooldowns \cup {k}
                   /\ cooldowns'[k] = tasks[t].num
                   /\ \A o \in DOMAIN cooldowns \ {k} :
                         cooldowns'[o] = cooldowns[o]
                   /\ k \in DOMAIN cooldowns =>
                         cooldowns'[k] - cooldowns[k] >= CooldownTicks]_vars

\* a call has been throttled half a window after the accepted one, and the
\* record is still that of the accepted call
C17_Witness ==
    /\ gate.verdict = "throttled"
    /\ << gate.gld, gate.user, gate.cmd >> \in DOMAIN cooldowns
    /\ cooldowns[<< gate.gld, gate.user, gate.cmd >>] = now - 1

\* C18: rate limiting is per (guild, user, command): a recognized command is
\* dropped only when an accepted command of the same guild, user and command
\* lies less than the window back -- never because of the user's message in
\* another guild, another command of the user, or an unrecognized message.
C18_PerKey ==
    [][(/\ gate' # gate
        /\ gate'.verdict \in {"flood", "throttled"}
        /\ gate'.cmd \in Known)
          => LET k == << gate'.gld, gate'.user, gate'.cmd >>
             IN /\ k \in DOMAIN cooldowns
                /\ now - cooldowns[k] < CooldownTicks]_vars

\* C19: toggle_loop takes the loop mode from off to track, from track to
\* queue and from queue to off, and changes nothing else of the session, the
\* player or the store; the mode is not stored, so from a restart until the
\* first command after it the mode is off.
C19_LoopCycle ==
    [][/\ ToggleLoop =>
             /\ Session.loop_mode = "off" => Session'.loop_mode = "track"
             /\ Session.loop_mode = "track" => Session'.loop_mode = "queue"
             /\ Session.loop_mode = "queue" => Session'.loop_mode = "off"
             /\ [Session' EXCEPT !.loop_mode = "off"]
                   = [Session EXCEPT !.loop_mode = "off"]
             /\ << player, settingsRow, pqRows, history >>'
                   = << player, settingsRow, pqRows, history >>
       /\ Restart => Session'.loop_mode = "off"
       /\ phase' # "run" => Session'.loop_mode = "off"]_vars

\* two toggles have set the mode to queue while tracks are pending
C19_Witness ==
    /\ Session.loop_mode = "queue"
    /\ Session.queue # << >>
    /\ pqRows = RowsOf(StoredSeq(Session.queue))

\* max(0, min(200, v))
Max0Min200(v) ==
    LET m == IF v < 200 THEN v ELSE 200 IN IF m > 0 THEN m ELSE 0

\* C20: set_volume(v) by a member who passes the DJ check, with an active
\* player, sets the session's default volume, then the stored guild volume,
\* then the player's volume to max(0, min(200, v)), and returns with all
\* three equal to it.
C20_VolumeClamp ==
    [][\A t \in Slots :
          /\ (tasks[t].pc \in {"idle", "gs_sel"} /\ tasks'[t].pc = "vol_upd")
                => Session'.default_volume = Max0Min200(tasks'[t].arg)
          /\ tasks[t].pc = "vol_upd"
                => /\ tasks'[t].pc = "vol_set"
                   /\ settingsRow'.volume = Max0Min200(tasks[t].arg)
          /\ tasks[t].pc = "vol_set"
                => /\ tasks'[t].pc = "idle"
                   /\ player'.connected
                   /\ player'.volume = Max0Min200(tasks[t].arg)
                   /\ settingsRow'.volume = Max0Min200(tasks[t].arg)
                   /\ Session'.default_volume = Max0Min200(tasks[t].arg)]_vars

\* set_volume(250) has returned: session, settings row and player hold 200
C20_Witness ==
    /\ NoHandler
    /\ player.connected
    /\ player.volume = 200
    /\ settingsRow.volume = 200
    /\ Session.default_volume = 200

\* a play_next whose player.play(next_track) has returned and whose
\* add_history has not
PlayStarted(f) ==
    \/ f.pc \in {"pn_vol", "hist_ins"}
    \/ f.pc \in {"sv_del", "sv_ins"} /\ f.then = "pn_hist"

\* C21: the playback history is append-only -- a step leaves it as it is or
\* appends one row -- and every play_next that has started a track appends
\* exactly that track's row (guild, title, uri, requester) before it ends.
C21_HistoryAppendOnly ==
    [][/\ \/ history' = history
          \/ /\ Len(history') = Len(history) + 1
             /\ SubSeq(history', 1, Len(history)) = history
       /\ \A t \in Slots :
             /\ (PlayStarted(tasks[t]) /\ ~PlayStarted(tasks'[t])
                   /\ phase' # "boot")
                   => /\ tasks[t].pc = "hist_ins"
                      /\ history' = Append(history,
                            [guild_id |-> Guild,
                             title |-> tasks[t].trk.title,
                             uri |-> tasks[t].trk.uri,
                             req |-> tasks[t].trk.req])
             /\ (tasks[t].pc = "hist_ins" /\ tasks'[t].pc # "hist_ins")
                   => history' # history]_vars

\* C22: of the handlers of one guild that overlap, at most one has popped a
\* track and is starting it, and player.play(next_track) of play_next never
\* returns on a player that is playing a track which has not ended.
C22_OneAdvance ==
    [][/\ Cardinality({ t \in Slots : tasks'[t].pc = "pn_play" }) <= 1
       /\ \A t \in Slots :
             (tasks[t].pc = "pn_play" /\ tasks'[t].pc = "pn_vol")
                => ~player.playing]_vars

\* C23: at every moment, in the middle of a save_queue and with two
\* save_queue calls interleaved, the stored positions of the guild are
\* exactly 0..n-1, no two rows share a position, and no INSERT of a
\* save_queue finds its position taken.
C23_PositionsDense ==
    [][/\ Positions(pqRows') = 0..(Cardinality(pqRows') - 1)
       /\ Cardinality(Positions(pqRows')) = Cardinality(pqRows')
       /\ \A t \in Slots :
             ~(/\ tasks[t].pc = "sv_ins"
               /\ lockq # << >> /\ Head(lockq) = t
               /\ tasks[t].i \in Positions(pqRows)
               /\ tasks'[t].pc = "idle")]_vars

\* C24: when handle_track_end has read the settings for a track that ended,
\* with the player connected and tracks pending, it goes on into play_next,
\* which starts a track: the handler does not return with the queue left
\* waiting.
C24_TrackEndAdvances ==
    [][\A t \in Slots :
          (/\ tasks[t].pc = "gs_sel"
           /\ tasks[t].then = "te"
           /\ tasks'[t].pc # "gs_sel"
           /\ player.connected
           /\ Session.queue # << >>)
             => tasks'[t].pc \in {"pn_play", "pn_replay"}]_vars

\* C25: when set_dj_role has returned for an administrator's "dj <role_id>"
\* (or "dj off", role 0) and the command is about to be acknowledged, the
\* role is the one get_guild_settings returns for the guild from then on,
\* also on a guild that had no settings row.
C25_DjRoleStored ==
    [][\A t \in Slots :
          (tasks[t].pc = "dj_upd" /\ tasks'[t].pc = "send")
             => InsertOrIgnore(settingsRow').dj_role = tasks[t].num]_vars

\* C26: play_query sets the session's default volume to the guild's stored
\* volume, whatever value in 0..200 is stored, and the volume play_next
\* applies to the track it starts is that volume.
C26_VolumeRestored ==
    [][\A t \in Slots :
          /\ (tasks[t].pc = "gs_sel" /\ tasks[t].then = "pq"
                /\ tasks'[t].pc # "gs_sel")
                => Session'.default_volume = settingsRow.volume
          /\ (tasks[t].pc = "pn_vol" /\ tasks'[t].pc # "pn_vol"
                /\ player.connected)
                => player'.volume = settingsRow.volume]_vars

\* C27: the handler of every channel deletion acts on the user who deleted
\* that channel: when its audit-log lookup returns it goes on to recreate the
\* channel and ban the deleter unless the deleter is trusted, in which case
\* it does neither; the recreation and the ban then happen.
C27_AntiNuke ==
    [][\A c \in Channels :
          /\ (handlers[c].pc = "lookup" /\ handlers'[c].pc # "lookup")
                => IF deleter[c] \in TRUSTED_USER_IDS
                   THEN handlers'[c].pc = "done"
                   ELSE /\ handlers'[c].pc = "create"
                        /\ handlers'[c].user = deleter[c]
          /\ (handlers[c].pc = "create" /\ handlers'[c].pc # "create")
                => c \in recreated'
          /\ (handlers[c].pc = "ban" /\ handlers'[c].pc # "ban")
                => deleter[c] \in banned']_vars

\* C28: when play_next starts a track other than the one the player holds,
\* the session's retry_attempts is 0, so the new track has both of its
\* same-track replays ahead of it.
C28_FreshRetryBudget ==
    [][\A t \in Slots :
          (/\ tasks[t].pc = "pn_play"
           /\ tasks'[t].pc = "pn_vol"
           /\ player.connected
           /\ tasks[t].trk.uri # player.current.uri)
             => Session.retry_attempts = 0]_vars

\* C29: restore_for_guild for a guild whose session exists already -- a
\* second on_ready -- leaves the pending queue as it is.
C29_RestoreIdempotent ==
    [][\A t \in Slots :
          (/\ tasks[t].pc = "rs_load"
           /\ tasks'[t].pc = "idle"
           /\ Guild \in DOMAIN sessions
           /\ Session.queue # << >>
           /\ LoadQueue(pqRows) = Session.queue)
             => Session'.queue = Session.queue]_vars

\* C30: in every reachable state the uris of the pending queue are pairwise
\* different, and none of them is the uri of the track that is playing or of
\* a track a play_next is starting.
C30_NoDuplicateUris ==
    LET q == Session.queue IN
    /\ \A i, j \in DOMAIN q : i # j => q[i].uri # q[j].uri
    /\ (player.current # NoTrack /\ (player.playing \/ player.paused))
          => player.current.uri \notin UrisOf(q)
    /\ \A t \in Slots :
          tasks[t].pc = "pn_play" => tasks[t].trk.uri \notin UrisOf(q)

\* the voice session is connected, nothing plays or is paused, the pending
\* queue is empty and no handler is in flight
IdleConnected ==
    /\ player.connected
    /\ ~player.playing
    /\ ~player.paused
    /\ Session.queue = << >>
    /\ \A t \in Slots : tasks[t].pc = "idle"

\* the steps the event loop itself takes: a suspended handler resumes when
\* its await completes
HandlerStep ==
    \E t \in {1} :
       \/ Common(t)
       \/ Search(t, Uris)
       \/ Replay(t)
       \/ ExceptionLogged(t)
       \/ ExceptionReplay(t)
       \/ ForceSkip(t)

\* SpecIdle: SpecLoop with the event loop's scheduling: every resumable
\* handler is resumed, and asyncio.sleep(timeout_s) of a pending
\* _idle_disconnect task returns
SpecIdle ==
    /\ InitLoop
    /\ [][NextLoop]_vars
    /\ WF_vars(HandlerStep)
    /\ WF_vars(IdleDisconnect)

\* _idle_disconnect ends the idle state: an idle connected guild does not
\* stay so for ever
LeavesIdle == IdleConnected ~> ~IdleConnected

\* C31: whenever the guild is connected and idle with no handler in flight,
\* an idle-disconnect timer is pending for it, so the idle state does not
\* last: the bot is disconnected (or playback resumes) -- also after a
\* play_query that connected and then found no tracks or no engine node.
C31_IdleDisconnects ==
    /\ [](IdleConnected => Session.idle_task = "pending")
    /\ LeavesIdle

====
